---- MODULE Spec2Model ----
(***************************************************************************)
(* yo-clip: tiling, batched embedding, nearest-prototype classification    *)
(* and grid reconstruction (src/yoclip/process.py, src/yoclip/yolotoclip.py)*)
(*                                                                         *)
(* Vectors are 2-D integer vectors whose Euclidean norm is an integer, so  *)
(* that L2 normalisation is exact: a unit vector is stored scaled by UNIT. *)
(* A similarity is the dot product of two such vectors (scale UNIT*UNIT).  *)
(***************************************************************************)
EXTENDS Integers, Sequences, FiniteSets, TLC

(* ------------------------------ bounds -------------------------------- *)
MaxW == 4
MaxH == 3
MaxTile == 2
MaxProtos == 2
MaxBatch == 2
MaxItems == 3
MaxRows == 3
MaxClasses == 2
MaxLines == 2
MaxPix == 3
MaxCalls == 3

TileSizes == 2..MaxTile
BandCounts == {1, 3}
TopKs == {1, 5}
NumContents == 3
UNIT == 2 * 5 * 13

(* ------------------------------ state --------------------------------- *)
VARIABLES
    width, height, bands, invalid,     \* the raster: size, band count, masked pixels
    tile_size, overlap,                \* run_process parameters
    pc,                                \* position in run_process
    x, y, row, col,                    \* loop variables of extract_geotiff_tiles
    tiles,                             \* list of tile metadata (with pixel content class)
    query_vectors,                     \* loaded prototypes, in dict order
    batch_size, fails, i,              \* embedder: batch size, failing items, loop index
    tile_embeddings, tile_metadata,    \* embedder outputs
    batch_log,                         \* sizes of the batches sent to the model
    ci, records, crop_log,             \* process_crops_in_batches: index, output, batches
    top_k, results,                    \* classifier
    use_grid, cells,                   \* shapefile rows
    qml,                               \* categories of the QGIS style file
    geojson,                           \* features of the GeoJSON file
    error,                             \* the ValueError raised: <<message, values in it>>
    df_embeddings,                     \* rows of the embeddings pickle
    command, class_name, method,       \* prototype builder: function called, arguments
    todo,                              \* classes the loop of the builder still has to visit
    query_files,                       \* .npy files written: <<file name, vector>>
    query_vectors_info,                \* rows collected for the summary
    summary_file,                      \* query_vectors_summary.csv: {} or {its rows}
    absent,                            \* input paths that do not exist
    effects,                           \* what a command has loaded, read and written so far
    class_prompts,                     \* collect_crops_and_metadata: the class list
    image_found, label_lines,          \* one label file: has it an image, its lines
    line_no,                           \* index of the next line of the label file
    dtype, tile_data,                  \* pixel type and raw values of one window (in halves)
    rgb_tile,                          \* the pixel values of the tile after normalisation
    _config, config_file,              \* Config: the dict in memory, config.json
    calls, writes_ok,                  \* set and delete calls so far; did every write succeed
    config2,                           \* the dict of a Config created afterwards
    crops, crop_metadata               \* the two lists collect_crops_and_metadata returns

vars == <<width, height, bands, invalid, tile_size, overlap, pc, x, y, row, col,
          tiles, query_vectors, batch_size, fails, i, tile_embeddings,
          tile_metadata, batch_log, ci, records, crop_log, top_k, results,
          use_grid, cells, qml, geojson, error, df_embeddings, command, class_name, method,
          todo, query_files, query_vectors_info, summary_file, absent, effects,
          class_prompts, image_found, label_lines, line_no, crops, crop_metadata,
          dtype, tile_data, rgb_tile, _config, config_file, calls, writes_ok, config2>>

rasterVars == <<width, height, bands, invalid, tile_size, overlap>>
scanVars == <<x, y, row, col>>
embedVars == <<batch_size, fails, i, tile_embeddings, tile_metadata, batch_log>>
cropVars == <<ci, records, crop_log>>
outVars == <<top_k, results, use_grid, cells, qml, geojson>>
runVars == <<rasterVars, scanVars, tiles, query_vectors, embedVars, cropVars, outVars>>
builderVars == <<df_embeddings, command, class_name, method, todo, query_files,
                 query_vectors_info, summary_file>>
preflightVars == <<absent, effects>>
collectVars == <<class_prompts, image_found, label_lines, line_no, crops, crop_metadata>>
pixelVars == <<dtype, tile_data, rgb_tile>>
configVars == <<_config, config_file, calls, writes_ok, config2>>
toolVars == <<preflightVars, collectVars, pixelVars, configVars>>

(* ----------------------------- helpers -------------------------------- *)
Min(a, b) == IF a < b THEN a ELSE b

SetMin(S) == CHOOSE m \in S : \A n \in S : m <= n

SetMax(S) == CHOOSE m \in S : \A n \in S : m >= n

Range(s) == {s[k] : k \in 1..Len(s)}

(* The raster's affine geotransform (north-up, 2 map units per pixel).     *)
SrcTransform == [a |-> 2, b |-> 0, c |-> 100, d |-> 0, e |-> -2, f |-> 200]

Apply(T, px, py) == <<T.a * px + T.b * py + T.c, T.d * px + T.e * py + T.f>>

(* src.window_transform(window): the raster transform moved to the window  *)
(* origin, so that window-local pixel (0,0) maps to raster pixel           *)
(* (col_off, row_off).                                                     *)
WindowTransform(T, col_off, row_off) ==
    [T EXCEPT !.c = T.a * col_off + T.b * row_off + T.c,
              !.f = T.d * col_off + T.e * row_off + T.f]

(* Pixel data of a window, abstracted to a content class 1..NumContents.   *)
PixelClass(px, py) == ((px + 2 * py) % NumContents) + 1

(* ------------------------- extract_geotiff_tiles ---------------------- *)
Step == tile_size - overlap

WinWidthPadded == tile_size

WinWidth == Min(tile_size, width - x)

WinHeight == Min(tile_size, height - y)

WindowPixels(wx, wy, w, h) == {<<px, py>> : px \in wx..(wx + w - 1), py \in wy..(wy + h - 1)}

AnyMaskedMajority ==
    2 * Cardinality(WindowPixels(x, y, WinWidth, WinHeight) \cap invalid)
        > Cardinality(WindowPixels(x, y, WinWidth, WinHeight))

AnyMaskedFirstRow == WindowPixels(x, y, WinWidth, 1) \cap invalid # {}

(* mask = src.read_masks(1, window=window); np.any(mask == 0)              *)
AnyMasked == WindowPixels(x, y, WinWidth, WinHeight) \cap invalid # {}

IsPartial == WinWidth < tile_size \/ WinHeight < tile_size

(* rgb_tile = tile_data[:3]: its band axis has min(bands, 3) entries.      *)
BadShape == Min(bands, 3) # 3 \/ WinHeight # tile_size \/ WinWidth # tile_size

MetadataSwapped ==
    [tile_x |-> x, tile_y |-> y, tile_width |-> WinWidth, tile_height |-> WinHeight,
     row |-> col, col |-> row,
     window |-> [col_off |-> x, row_off |-> y, width |-> WinWidth, height |-> WinHeight],
     transform |-> WindowTransform(SrcTransform, x, y),
     content |-> PixelClass(x, y)]

Metadata ==
    [tile_x |-> x, tile_y |-> y, tile_width |-> WinWidth, tile_height |-> WinHeight,
     row |-> row, col |-> col,
     window |-> [col_off |-> x, row_off |-> y, width |-> WinWidth, height |-> WinHeight],
     transform |-> WindowTransform(SrcTransform, x, y),
     content |-> PixelClass(x, y)]

AdvanceUnordered ==
    IF x + Step < width
    THEN /\ \E k \in 1..2 : x' = x + k * Step /\ col' = col + k
         /\ UNCHANGED <<y, row, pc>>
    ELSE /\ x' = 0
         /\ col' = 0
         /\ y' = y + Step
         /\ row' = row + 1
         /\ pc' = IF y + Step < height THEN "extract" ELSE "tiles_done"

AdvanceColOnEmit ==
    IF x + Step < width
    THEN /\ x' = x + Step
         /\ col' = IF IsPartial \/ AnyMasked \/ BadShape THEN col ELSE col + 1
         /\ UNCHANGED <<y, row, pc>>
    ELSE /\ x' = 0
         /\ col' = 0
         /\ y' = y + Step
         /\ row' = row + 1
         /\ pc' = IF y + Step < height THEN "extract" ELSE "tiles_done"

(* End of one iteration of the inner loop: col += 1 and the two range()    *)
(* loops move to the next candidate window.                                *)
Advance ==
    IF x + Step < width
    THEN /\ x' = x + Step
         /\ col' = col + 1
         /\ UNCHANGED <<y, row, pc>>
    ELSE /\ x' = 0
         /\ col' = 0
         /\ y' = y + Step
         /\ row' = row + 1
         /\ pc' = IF y + Step < height THEN "extract" ELSE "tiles_done"

SkipPartial ==
    /\ pc = "extract"
    /\ IsPartial
    /\ Advance
    /\ UNCHANGED <<toolVars, builderVars, error, rasterVars, tiles, query_vectors, embedVars, cropVars, outVars>>

SkipMasked ==
    /\ pc = "extract"
    /\ ~IsPartial
    /\ AnyMasked
    /\ Advance
    /\ UNCHANGED <<toolVars, builderVars, error, rasterVars, tiles, query_vectors, embedVars, cropVars, outVars>>

SkipBadShape ==
    /\ pc = "extract"
    /\ ~IsPartial
    /\ ~AnyMasked
    /\ BadShape
    /\ Advance
    /\ UNCHANGED <<toolVars, builderVars, error, rasterVars, tiles, query_vectors, embedVars, cropVars, outVars>>

EmitTile ==
    /\ pc = "extract"
    /\ ~IsPartial
    /\ ~AnyMasked
    /\ ~BadShape
    /\ tiles' = Append(tiles, Metadata)
    /\ Advance
    /\ UNCHANGED <<toolVars, builderVars, error, rasterVars, query_vectors, embedVars, cropVars, outVars>>

(* ------------------------------ vectors ------------------------------- *)
Dot(u, v) == u[1] * v[1] + u[2] * v[2]

(* Euclidean norm; every vector of the model has an integer norm.          *)
Abs(n) == IF n < 0 THEN -n ELSE n

Norm(v) == CHOOSE n \in 0..(Abs(v[1]) + Abs(v[2])) : n * n = Dot(v, v)

(* The value that stands for nan in a vector                               *)
NaN == -(UNIT * UNIT * UNIT)

NaNVec == <<NaN, NaN>>

(* v / v.norm(), stored scaled by UNIT; 0 / 0 is nan.                      *)
Normalize(v) ==
    IF Norm(v) = 0 THEN NaNVec
    ELSE <<(v[1] * UNIT) \div Norm(v), (v[2] * UNIT) \div Norm(v)>>

(* model.encode_image on one preprocessed tensor: content class c, or 0    *)
(* for the torch.zeros(3, 224, 224) placeholder. The model maps each item  *)
(* of a batch independently of the others.                                 *)
EncTable == <<(<<3, 4>>), (<<0, 5>>), (<<-3, 4>>), (<<5, 12>>), (<<12, -5>>)>>

(* An item content for which the model returns the zero vector             *)
BlankContent == NumContents + 1

EncodeImage(tensor) ==
    IF tensor = 0 THEN <<8, 6>>
    ELSE IF tensor = BlankContent THEN <<0, 0>>
    ELSE EncTable[tensor]

(* Prototype vectors the query_*.npy files can hold (not unit length): a   *)
(* directory holds m consecutive vectors of this cycle, starting anywhere. *)
ProtoVecs == <<(<<3, 4>>), (<<6, 8>>), (<<-3, 4>>)>>

ProtoFile(first, k) == ProtoVecs[((first + k - 2) % Len(ProtoVecs)) + 1]

(* A name is the sequence of its words and separator characters. The      *)
(* stems of the query_<stem>.npy files, in sorted(npy_files) order:        *)
FileStems ==
    <<(<<"mud">>),
      (<<"substrate", "_", "sand">>),
      (<<"vegetation", "_", "seagrass">>),
      (<<"vegetation", "_", "seagrass", "_", "dense">>)>>

(* npy_file.stem.replace('query_', '').replace('_', ';')                   *)
ClassNameOfStem(stem) == [k \in 1..Len(stem) |-> IF stem[k] = "_" THEN ";" ELSE stem[k]]

(* The class names of the files, which are in ascending string order too.  *)
ClassNames == [k \in 1..Len(FileStems) |-> ClassNameOfStem(FileStems[k])]

(* ---------------------- process_tiles_in_batches ---------------------- *)
BatchSliceShort(lo, n) == (lo + 1)..Min(lo + batch_size - 1, n)

(* Indices (1-based) of the slice tiles[lo : lo + batch_size].             *)
BatchSlice(lo, n) == (lo + 1)..Min(lo + batch_size, n)

(* preprocess(Image.fromarray(tile)); a failing item becomes a zero tensor *)
Preprocess(k) == IF k \in fails THEN 0 ELSE tiles[k].content

BatchFeaturesDrop(lo, n) ==
    LET ok(k) == k \notin fails
        kept == SelectSeq([j \in 1..Cardinality(BatchSlice(lo, n)) |-> lo + j], ok)
    IN  [j \in 1..Len(kept) |-> Normalize(EncodeImage(tiles[kept[j]].content))]

BatchFeatures(lo, n) ==
    [j \in 1..Cardinality(BatchSlice(lo, n)) |-> Normalize(EncodeImage(Preprocess(lo + j)))]

BatchMetadata(lo, n) ==
    [j \in 1..Cardinality(BatchSlice(lo, n)) |-> tiles[lo + j]]

TileBatch ==
    /\ pc = "embed"
    /\ i < Len(tiles)
    /\ tile_metadata' = tile_metadata \o BatchMetadata(i, Len(tiles))
    /\ tile_embeddings' = tile_embeddings \o BatchFeatures(i, Len(tiles))
    /\ batch_log' = Append(batch_log, Cardinality(BatchSlice(i, Len(tiles))))
    /\ i' = i + batch_size
    /\ pc' = IF i + batch_size < Len(tiles) THEN "embed" ELSE "embedded"
    /\ UNCHANGED <<toolVars, builderVars, error, rasterVars, scanVars, tiles, query_vectors, batch_size, fails,
                   cropVars, outVars>>

(* range(0, 0, batch_size) is empty: no batch, np.array([]) and [].        *)
TileBatchNone ==
    /\ pc = "embed"
    /\ Len(tiles) = 0
    /\ pc' = "embedded"
    /\ UNCHANGED <<toolVars, builderVars, error, rasterVars, scanVars, tiles, query_vectors, embedVars, cropVars, outVars>>

(* ---------------------- process_crops_in_batches ---------------------- *)
(* The crops and their metadata as collect_crops_and_metadata returns them:*)
(* crop k is the content of item k, labelled with class_id content - 1.    *)
CropMeta(k) == [object_id |-> k - 1, class_id |-> tiles[k].content - 1]

TextFeatures(class_id) == Normalize(EncTable[class_id + 1])

CropRecords(lo, n) ==
    [j \in 1..Cardinality(BatchSlice(lo, n)) |->
        [meta |-> CropMeta(lo + j),
         image_embedding |-> Normalize(EncodeImage(Preprocess(lo + j))),
         text_embedding |-> TextFeatures(CropMeta(lo + j).class_id)]]

CropBatch ==
    /\ pc \in {"embed", "embedded"}
    /\ ci < Len(tiles)
    /\ records' = records \o CropRecords(ci, Len(tiles))
    /\ crop_log' = Append(crop_log, Cardinality(BatchSlice(ci, Len(tiles))))
    /\ ci' = ci + batch_size
    /\ UNCHANGED <<toolVars, builderVars, error, rasterVars, scanVars, pc, tiles, query_vectors, embedVars, outVars>>

(* ----------------------------- run_process ---------------------------- *)
(* Directory of query_*.npy files: one prototype per file, sorted by name. *)
LoadedCountsAny == 0..MaxProtos

(* Number of files that load when the run goes on: query_vectors is not    *)
(* empty after the loop.                                                   *)
LoadedCounts == 1..MaxProtos

LoadQueryVectors ==
    /\ pc = "load_query"
    /\ \E m \in LoadedCounts : \E first \in 1..Len(ProtoVecs) :
          query_vectors' = [k \in 1..m |->
                               [class_name |-> ClassNames[k], vector |-> ProtoFile(first, k)]]
    /\ pc' = "extract"
    /\ UNCHANGED <<toolVars, builderVars, error, rasterVars, scanVars, tiles, embedVars, cropVars, outVars>>

(* npy_files is empty: the directory holds no query_*.npy file.            *)
NoQueryFiles ==
    /\ pc = "load_query"
    /\ error' = <<"No query vector files found">>
    /\ pc' = "error"
    /\ UNCHANGED <<toolVars, builderVars, rasterVars, scanVars, tiles, query_vectors, embedVars, cropVars, outVars>>

(* Every np.load raised, or the single file could not be loaded.           *)
NoValidQueryVectors ==
    /\ pc = "load_query"
    /\ error' = <<"No valid query vectors loaded">>
    /\ pc' = "error"
    /\ UNCHANGED <<toolVars, builderVars, rasterVars, scanVars, tiles, query_vectors, embedVars, cropVars, outVars>>

NoTilesNever == FALSE

(* if not tiles                                                            *)
NoTiles == tiles = <<>>

NoTilesExtracted ==
    /\ pc = "tiles_done"
    /\ NoTiles
    /\ error' = <<"No tiles extracted!">>
    /\ pc' = "error"
    /\ UNCHANGED <<toolVars, builderVars, rasterVars, scanVars, tiles, query_vectors, embedVars, cropVars, outVars>>

(* Preprocessing raises for no tile of the run, or for its first tile.     *)
FailSets(n) == {{}, {1}}

(* Call of process_tiles_in_batches with the run's batch_size; the tiles   *)
(* whose preprocessing raises are an input of the run.                     *)
StartEmbedding ==
    /\ pc = "tiles_done"
    /\ ~NoTiles
    /\ \E b \in 1..MaxBatch : batch_size' = b
    /\ \E f \in FailSets(Len(tiles)) : fails' = f
    /\ i' = 0
    /\ tile_embeddings' = <<>>
    /\ tile_metadata' = <<>>
    /\ batch_log' = <<>>
    /\ pc' = "embed"
    /\ UNCHANGED <<toolVars, builderVars, error, rasterVars, scanVars, tiles, query_vectors, cropVars, outVars>>

(* proto_matrix / proto_matrix.norm(dim=-1, keepdim=True)                  *)
ProtoMatrix(qv) == [k \in 1..Len(qv) |-> Normalize(qv[k].vector)]

(* Row of sims = tile_feats @ proto_matrix.T for one tile embedding e,     *)
(* which is re-normalised first.                                           *)
Sims(e, qv) ==
    LET feat == Normalize(e)
        proto == ProtoMatrix(qv)
    IN  [k \in 1..Len(qv) |-> Dot(feat, proto[k])]

RowMax(r) == SetMax(Range(r))

ArgmaxLast(r) == SetMax({k \in 1..Len(r) : r[k] = RowMax(r)}) - 1

(* argmax: index of the first maximal value (0-based, as in the code)      *)
Argmax(r) == (CHOOSE k \in 1..Len(r) : r[k] = RowMax(r) /\ \A j \in 1..(k - 1) : r[j] # RowMax(r)) - 1

ResultEntry(emb, meta, qv, t) ==
    LET sims == Sims(emb[t], qv)
    IN  [tile_id |-> t - 1,
         tile_x |-> meta[t].tile_x, tile_y |-> meta[t].tile_y,
         tile_width |-> meta[t].tile_width, tile_height |-> meta[t].tile_height,
         row |-> meta[t].row, col |-> meta[t].col,
         best_class |-> qv[Argmax(sims) + 1].class_name,
         query_similarity |-> RowMax(sims)]

ResultsTopK(emb, meta, qv, k) ==
    [t \in 1..Min(k, Len(emb)) |-> ResultEntry(emb, meta, qv, t)]

(* for tile_idx in range(len(tile_embeddings)): one result entry per tile; *)
(* top_k (k) is not used.                                                  *)
Results(emb, meta, qv, k) ==
    [t \in 1..Len(emb) |-> ResultEntry(emb, meta, qv, t)]

Classify ==
    /\ pc = "embedded"
    /\ \E k \in TopKs : /\ top_k' = k
                        /\ results' = Results(tile_embeddings, tile_metadata, query_vectors, k)
    /\ pc' = "classified"
    /\ UNCHANGED <<toolVars, builderVars, error, rasterVars, scanVars, tiles, query_vectors, embedVars, cropVars,
                   use_grid, cells, qml, geojson>>

(* ------------------------- shapefile creation ------------------------- *)
RECURSIVE SortedSeq(_)
(* sorted(set(...)) of integers                                            *)
SortedSeq(S) == IF S = {} THEN <<>> ELSE <<SetMin(S)>> \o SortedSeq(S \ {SetMin(S)})

(* Position of a class name in ascending string order                      *)
ClassRank(c) == CHOOSE k \in 1..Len(ClassNames) : ClassNames[k] = c

BestClasses(res) == {res[j].best_class : j \in 1..Len(res)}

UniqueClassesDiscovery(res) ==
    LET first(j) == \A n \in 1..(j - 1) : res[n].best_class # res[j].best_class
        idx == SelectSeq([j \in 1..Len(res) |-> j], first)
    IN  [n \in 1..Len(idx) |-> res[idx[n]].best_class]

(* sorted(list(set(result['best_class'] for result in results)))           *)
UniqueClasses(res) ==
    LET ranks == SortedSeq({ClassRank(c) : c \in BestClasses(res)})
    IN  [n \in 1..Len(ranks) |-> ClassNames[ranks[n]]]

(* int(c * 255) for the components of colorsys.hsv_to_rgb(k / n, 0.8, 0.9) *)
(* with v = 0.9, p = 0.18, q = 0.9 (1 - 0.8 f), t = 0.9 (0.2 + 0.8 f) and  *)
(* f the fractional part of 6 k / n.                                       *)
HsvToRgb(k, n) ==
    LET sector == ((6 * k) \div n) % 6
        fnum == (6 * k) % n
        v == 2295 \div 10
        pp == 459 \div 10
        q == (2295 * n - 1836 * fnum) \div (10 * n)
        t == (459 * n + 1836 * fnum) \div (10 * n)
    IN  CASE sector = 0 -> <<v, t, pp>>
          [] sector = 1 -> <<q, v, pp>>
          [] sector = 2 -> <<pp, v, t>>
          [] sector = 3 -> <<pp, q, v>>
          [] sector = 4 -> <<t, pp, v>>
          [] sector = 5 -> <<v, pp, q>>

(* _generate_class_colors: dict(zip(unique_classes, class_colors))         *)
GenerateClassColors(unique_classes) ==
    [c \in Range(unique_classes) |->
        HsvToRgb((CHOOSE k \in 1..Len(unique_classes) : unique_classes[k] = c) - 1,
                 Len(unique_classes))]

ClassToColor(res) == GenerateClassColors(UniqueClasses(res))

(* f"#{r:02x}{g:02x}{b:02x}": the six hexadecimal digits                   *)
ColorHex(rgb) ==
    <<rgb[1] \div 16, rgb[1] % 16, rgb[2] \div 16, rgb[2] % 16, rgb[3] \div 16, rgb[3] % 16>>

RECURSIVE ReplaceDoubleSemi(_)
(* class_name.replace(';;', ';')                                           *)
ReplaceDoubleSemi(name) ==
    IF Len(name) < 2 THEN name
    ELSE IF name[1] = ";" /\ name[2] = ";"
         THEN <<";">> \o ReplaceDoubleSemi(SubSeq(name, 3, Len(name)))
         ELSE <<name[1]>> \o ReplaceDoubleSemi(Tail(name))

(* name.split(';')[0]                                                      *)
FirstSegment(name) ==
    LET semis == {k \in 1..Len(name) : name[k] = ";"}
    IN  IF semis = {} THEN name ELSE SubSeq(name, 1, SetMin(semis) - 1)

(* class_to_color.get(key, (128, 128, 128))                                *)
ColorGet(class_to_color, key) ==
    IF key \in DOMAIN class_to_color THEN class_to_color[key] ELSE <<128, 128, 128>>

(* The key the grid shapefile looks its colour up with                     *)
GridColorKey(name) == FirstSegment(ReplaceDoubleSemi(name))

(* create_qgis_style_file: one category and one symbol per class           *)
QgisStyle(unique_classes, class_to_color) ==
    [k \in 1..Len(unique_classes) |->
        [value |-> unique_classes[k], color |-> class_to_color[unique_classes[k]]]]

(* round(similarity, 4), in units of 1e-4                                  *)
Round4(sim) == (2 * 10000 * sim + UNIT * UNIT) \div (2 * UNIT * UNIT)

XPositions(meta) == {meta[k].tile_x : k \in 1..Len(meta)}

YPositions(meta) == {meta[k].tile_y : k \in 1..Len(meta)}

(* grid_cell_width = min(meta['tile_width'] for meta in tile_metadata)     *)
GridCellWidth(meta) == SetMin({meta[k].tile_width : k \in 1..Len(meta)})

GridCellHeight(meta) == SetMin({meta[k].tile_height : k \in 1..Len(meta)})

(* result_lookup[(tile_x, tile_y)]: the last result stored under the key   *)
LookupKeys(res, meta) ==
    {<<meta[res[j].tile_id + 1].tile_x, meta[res[j].tile_id + 1].tile_y>> :
        j \in {n \in 1..Len(res) : res[n].tile_id < Len(meta)}}

ResultLookup(res, meta, key) ==
    res[SetMax({j \in 1..Len(res) :
                   /\ res[j].tile_id < Len(meta)
                   /\ <<meta[res[j].tile_id + 1].tile_x, meta[res[j].tile_id + 1].tile_y>> = key})]

GridKeysRange(meta) ==
    LET gw == GridCellWidth(meta)
        gh == GridCellHeight(meta)
        xlo == SetMin(XPositions(meta))
        ylo == SetMin(YPositions(meta))
        nx == ((SetMax(XPositions(meta)) - xlo) \div gw) + 1
        ny == ((SetMax(YPositions(meta)) - ylo) \div gh) + 1
    IN  [n \in 1..(nx * ny) |-> <<xlo + gw * ((n - 1) % nx), ylo + gh * ((n - 1) \div nx)>>]

(* The (x_pos, y_pos) pairs in the order of the two nested loops           *)
GridKeys(meta) ==
    LET xs == SortedSeq(XPositions(meta))
        ys == SortedSeq(YPositions(meta))
    IN  [n \in 1..(Len(xs) * Len(ys)) |->
            <<xs[((n - 1) % Len(xs)) + 1], ys[((n - 1) \div Len(xs)) + 1]>>]

GridPolygonGlobal(tile_meta, x_pos, y_pos, gw, gh) ==
    LET T == tile_meta.transform
    IN  <<Apply(T, x_pos, y_pos),
          Apply(T, x_pos + gw, y_pos),
          Apply(T, x_pos + gw, y_pos + gh),
          Apply(T, x_pos, y_pos + gh)>>

(* Corners of one grid cell, through the owning tile's window transform    *)
GridPolygon(tile_meta, x_pos, y_pos, gw, gh) ==
    LET local_x == x_pos - tile_meta.window.col_off
        local_y == y_pos - tile_meta.window.row_off
        T == tile_meta.transform
    IN  <<Apply(T, local_x, local_y),
          Apply(T, local_x + gw, local_y),
          Apply(T, local_x + gw, local_y + gh),
          Apply(T, local_x, local_y + gh)>>

GridCell(res, meta, key) ==
    LET result == ResultLookup(res, meta, key)
        gw == GridCellWidth(meta)
        gh == GridCellHeight(meta)
        rgb_color == ColorGet(ClassToColor(res), GridColorKey(result.best_class))
    IN  [tile_id |-> result.tile_id,
         best_class |-> result.best_class,
         similarity |-> Round4(result.query_similarity),
         tile_x |-> key[1], tile_y |-> key[2],
         tile_width |-> gw, tile_height |-> gh,
         red |-> rgb_color[1], green |-> rgb_color[2], blue |-> rgb_color[3],
         color_hex |-> ColorHex(rgb_color),
         polygon |-> GridPolygon(meta[result.tile_id + 1], key[1], key[2], gw, gh)]

HasResult(res, meta, key) == key \in LookupKeys(res, meta)

GridCells(res, meta) ==
    LET present(key) == HasResult(res, meta, key)
        keys == SelectSeq(GridKeys(meta), present)
    IN  [n \in 1..Len(keys) |-> GridCell(res, meta, keys[n])]

(* Corners of one tile polygon of the detailed shapefile                   *)
DetailedPolygon(metadata) ==
    LET x_min == metadata.tile_x
        y_min == metadata.tile_y
        x_max == x_min + metadata.tile_width
        y_max == y_min + metadata.tile_height
        T == metadata.transform
    IN  <<Apply(T, x_min, y_min), Apply(T, x_max, y_min),
          Apply(T, x_max, y_max), Apply(T, x_min, y_max)>>

DetailedCell(result, metadata, class_to_color) ==
    LET rgb_color == ColorGet(class_to_color, result.best_class)
    IN  [tile_id |-> result.tile_id,
         best_class |-> result.best_class,
         similarity |-> Round4(result.query_similarity),
         tile_x |-> metadata.tile_x, tile_y |-> metadata.tile_y,
         tile_width |-> metadata.tile_width, tile_height |-> metadata.tile_height,
         red |-> rgb_color[1], green |-> rgb_color[2], blue |-> rgb_color[3],
         color_hex |-> ColorHex(rgb_color),
         polygon |-> DetailedPolygon(metadata)]

DetailedCells(res, meta) ==
    LET ok(result) == result.tile_id < Len(meta)
        kept == SelectSeq(res, ok)
        class_to_color == ClassToColor(res)
    IN  [n \in 1..Len(kept) |->
            DetailedCell(kept[n], meta[kept[n].tile_id + 1], class_to_color)]

(* One feature of the GeoJSON file, before its reprojection to WGS84       *)
GeoJsonFeature(result, metadata, class_to_color) ==
    LET rgb_color == class_to_color[result.best_class]
    IN  [tile_id |-> result.tile_id,
         best_class |-> result.best_class,
         similarity |-> Round4(result.query_similarity),
         tile_x |-> metadata.tile_x, tile_y |-> metadata.tile_y,
         tile_width |-> metadata.tile_width, tile_height |-> metadata.tile_height,
         red |-> rgb_color[1], green |-> rgb_color[2], blue |-> rgb_color[3],
         color_hex |-> ColorHex(rgb_color),
         polygon |-> DetailedPolygon(metadata)]

GeoJsonFeatures(res, meta) ==
    LET ok(result) == result.tile_id < Len(meta)
        kept == SelectSeq(res, ok)
        class_to_color == ClassToColor(res)
    IN  [n \in 1..Len(kept) |->
            GeoJsonFeature(kept[n], meta[kept[n].tile_id + 1], class_to_color)]

(* create_shapefile_from_results with use_grid, then                       *)
(* create_geojson_from_results                                             *)
CreateGridShapefile ==
    /\ pc = "classified"
    /\ use_grid' = TRUE
    /\ cells' = GridCells(results, tile_metadata)
    /\ qml' = QgisStyle(UniqueClasses(results), ClassToColor(results))
    /\ geojson' = GeoJsonFeatures(results, tile_metadata)
    /\ pc' = "done"
    /\ UNCHANGED <<toolVars, builderVars, error, rasterVars, scanVars, tiles, query_vectors, embedVars, cropVars,
                   top_k, results>>

CreateDetailedShapefile ==
    /\ pc = "classified"
    /\ use_grid' = FALSE
    /\ cells' = DetailedCells(results, tile_metadata)
    /\ qml' = QgisStyle(UniqueClasses(results), ClassToColor(results))
    /\ geojson' = GeoJsonFeatures(results, tile_metadata)
    /\ pc' = "done"
    /\ UNCHANGED <<toolVars, builderVars, error, rasterVars, scanVars, tiles, query_vectors, embedVars, cropVars,
                   top_k, results>>

(* --------------------------- specifications --------------------------- *)
(* A run of run_process or of an embedder: the prototype builder is idle.  *)
NoPreflight == absent = {} /\ effects = <<>>

NoCollect ==
    /\ class_prompts = <<>> /\ image_found = FALSE /\ label_lines = <<>>
    /\ line_no = 0 /\ crops = <<>> /\ crop_metadata = <<>>

NoPixels == dtype = "uint8" /\ tile_data = <<>> /\ rgb_tile = <<>>

NoConfig ==
    /\ _config = {} /\ config_file = [exists |-> FALSE, entries |-> {}]
    /\ calls = <<>> /\ writes_ok = TRUE /\ config2 = {}

NoTools == NoPreflight /\ NoCollect /\ NoPixels /\ NoConfig

NoBuilder ==
    /\ df_embeddings = <<>>
    /\ command = "none" /\ class_name = <<>> /\ method = "mean"
    /\ todo = <<>>
    /\ query_files = {} /\ query_vectors_info = <<>> /\ summary_file = {}

Pixels(w, h) == {<<px, py>> : px \in 0..(w - 1), py \in 0..(h - 1)}

(* Validity masks: every pixel valid, or exactly one pixel masked.         *)
Masks(w, h) == {{}} \cup {{p} : p \in Pixels(w, h)}

InitRun ==
    /\ x = 0 /\ y = 0 /\ row = 0 /\ col = 0
    /\ tiles = <<>>
    /\ query_vectors = <<>>
    /\ batch_size = 1 /\ fails = {} /\ i = 0
    /\ tile_embeddings = <<>> /\ tile_metadata = <<>> /\ batch_log = <<>>
    /\ ci = 0 /\ records = <<>> /\ crop_log = <<>>
    /\ top_k = 5 /\ results = <<>>
    /\ use_grid = FALSE /\ cells = <<>>
    /\ qml = <<>> /\ geojson = <<>> /\ error = <<>>

(* run_process on a raster of at most MaxW x MaxH pixels                   *)
Init ==
    /\ width \in 1..MaxW
    /\ height \in 1..MaxH
    /\ bands \in BandCounts
    /\ invalid \in Masks(width, height)
    /\ tile_size \in TileSizes
    /\ overlap \in 0..(tile_size - 1)
    /\ pc = "load_query"
    /\ InitRun
    /\ NoBuilder
    /\ NoTools

Next ==
    \/ LoadQueryVectors
    \/ NoQueryFiles
    \/ NoValidQueryVectors
    \/ SkipPartial
    \/ SkipMasked
    \/ SkipBadShape
    \/ EmitTile
    \/ NoTilesExtracted
    \/ StartEmbedding
    \/ TileBatch
    \/ Classify
    \/ CreateGridShapefile
    \/ CreateDetailedShapefile

Spec == Init /\ [][Next]_vars

(* The two batched embedders on an arbitrary list of at most MaxItems      *)
(* items, any batch size and any set of items whose preprocessing fails.   *)
Item(k, c) ==
    [tile_x |-> 2 * (k - 1), tile_y |-> 0, tile_width |-> 2, tile_height |-> 2,
     row |-> 0, col |-> k - 1,
     window |-> [col_off |-> 2 * (k - 1), row_off |-> 0, width |-> 2, height |-> 2],
     transform |-> WindowTransform(SrcTransform, 2 * (k - 1), 0),
     content |-> c]

InitEmbed ==
    /\ width = 2 * MaxItems /\ height = 2 /\ bands = 3 /\ invalid = {}
    /\ tile_size = 2 /\ overlap = 0
    /\ x = 0 /\ y = 2 /\ row = 1 /\ col = 0
    /\ \E n \in 0..MaxItems : \E cs \in [1..n -> 1..BlankContent] :
          tiles = [k \in 1..n |-> Item(k, cs[k])]
    /\ query_vectors = <<>>
    /\ batch_size \in 1..MaxBatch
    /\ fails \in SUBSET (1..Len(tiles))
    /\ i = 0
    /\ tile_embeddings = <<>> /\ tile_metadata = <<>> /\ batch_log = <<>>
    /\ ci = 0 /\ records = <<>> /\ crop_log = <<>>
    /\ top_k = 5 /\ results = <<>>
    /\ use_grid = FALSE /\ cells = <<>>
    /\ qml = <<>> /\ geojson = <<>> /\ error = <<>>
    /\ NoBuilder
    /\ NoTools
    /\ pc = "embed"

NextEmbed ==
    \/ TileBatch
    \/ TileBatchNone
    \/ CropBatch

SpecEmbed == InitEmbed /\ [][NextEmbed]_vars

(* -------------------------- prototype builder ------------------------- *)
(* Class labels of the embeddings file, in ascending string order.         *)
Labels == <<(<<"mud">>), (<<"sea", " ", "grass">>), (<<"sea", ";", "grass">>)>>

LabelRank(c) == CHOOSE k \in 1..Len(Labels) : Labels[k] = c

(* image_embedding values of the file                                      *)
EmbVecs == {<<3, 4>>, <<5, 12>>}

Methods == {"mean", "median", "centroid", "max"}

KnownMethods == {"mean", "median", "centroid"}

(* df_embeddings[df_embeddings['class_name'] == c]                         *)
ClassEmbeddings(df, c) ==
    LET same(r) == r.class_name = c
    IN  SelectSeq(df, same)

(* sorted(df_embeddings['class_name'].unique())                            *)
AvailableClasses(df) ==
    LET ranks == SortedSeq({LabelRank(df[k].class_name) : k \in 1..Len(df)})
    IN  [n \in 1..Len(ranks) |-> Labels[ranks[n]]]

RECURSIVE VecSum(_)
VecSum(vs) ==
    IF vs = <<>> THEN <<0, 0>>
    ELSE <<vs[1][1] + VecSum(Tail(vs))[1], vs[1][2] + VecSum(Tail(vs))[2]>>

(* k-th smallest entry of a non-empty sequence of integers                 *)
Kth(vals, k) ==
    CHOOSE v \in Range(vals) :
        /\ Cardinality({j \in 1..Len(vals) : vals[j] < v}) < k
        /\ Cardinality({j \in 1..Len(vals) : vals[j] <= v}) >= k

(* Twice the median of a non-empty sequence of integers                    *)
Median2(vals) == Kth(vals, (Len(vals) + 1) \div 2) + Kth(vals, (Len(vals) \div 2) + 1)

AggregateRenormalized(rows, m) ==
    LET embs == [k \in 1..Len(rows) |-> rows[k].image_embedding]
    IN  IF embs = <<>> THEN [num |-> <<0, 0>>, den |-> 0, unit |-> FALSE]
        ELSE CASE m = "mean" -> [num |-> VecSum(embs), den |-> Len(embs), unit |-> TRUE]
               [] m = "median" ->
                    [num |-> <<Median2([k \in 1..Len(embs) |-> embs[k][1]]),
                               Median2([k \in 1..Len(embs) |-> embs[k][2]])>>,
                     den |-> 2, unit |-> FALSE]
               [] m = "centroid" ->
                    [num |-> VecSum([k \in 1..Len(embs) |-> Normalize(embs[k])]),
                     den |-> Len(embs) * UNIT, unit |-> TRUE]

(* The aggregated vector num / den; with unit it is divided by its norm.   *)
(* No row gives 0 / 0.                                                     *)
Aggregate(rows, m) ==
    LET embs == [k \in 1..Len(rows) |-> rows[k].image_embedding]
    IN  IF embs = <<>> THEN [num |-> <<0, 0>>, den |-> 0, unit |-> FALSE]
        ELSE CASE m = "mean" -> [num |-> VecSum(embs), den |-> Len(embs), unit |-> FALSE]
               [] m = "median" ->
                    [num |-> <<Median2([k \in 1..Len(embs) |-> embs[k][1]]),
                               Median2([k \in 1..Len(embs) |-> embs[k][2]])>>,
                     den |-> 2, unit |-> FALSE]
               [] m = "centroid" ->
                    [num |-> VecSum([k \in 1..Len(embs) |-> Normalize(embs[k])]),
                     den |-> Len(embs) * UNIT, unit |-> TRUE]

(* class_name.replace(';', '_').replace('/', '_').replace(' ', '_')        *)
SafeClassName(name) ==
    [k \in 1..Len(name) |-> IF name[k] \in {";", "/", " "} THEN "_" ELSE name[k]]

(* output_dir / f"query_{safe_class_name}.npy"                             *)
AutoFileName(name) == <<"query_">> \o SafeClassName(name) \o <<".npy">>

(* The output_file argument of create_query_vector                         *)
OutputFile == <<"query_vector", ".npy">>

(* np.save(file, vector): the file is created or overwritten               *)
Save(files, file, vector) == {f \in files : f[1] # file} \cup {<<file, vector>>}

NoClassEmbeddingsNever(rows) == FALSE

(* len(class_embeddings) == 0                                              *)
NoClassEmbeddings(rows) == Len(rows) = 0

CreateQueryVectorNoClass ==
    /\ pc = "build"
    /\ command = "create_query_vector"
    /\ NoClassEmbeddings(ClassEmbeddings(df_embeddings, class_name))
    /\ error' = <<"No embeddings found for class", class_name>>
    /\ pc' = "error"
    /\ UNCHANGED <<toolVars, runVars, builderVars>>

CreateQueryVectorUnknownMethod ==
    /\ pc = "build"
    /\ command = "create_query_vector"
    /\ ~NoClassEmbeddings(ClassEmbeddings(df_embeddings, class_name))
    /\ method \notin KnownMethods
    /\ error' = <<"Unknown method", method>>
    /\ pc' = "error"
    /\ UNCHANGED <<toolVars, runVars, builderVars>>

CreateQueryVectorSave ==
    /\ pc = "build"
    /\ command = "create_query_vector"
    /\ ~NoClassEmbeddings(ClassEmbeddings(df_embeddings, class_name))
    /\ method \in KnownMethods
    /\ query_files' = Save(query_files, OutputFile,
                           Aggregate(ClassEmbeddings(df_embeddings, class_name), method))
    /\ pc' = "built"
    /\ UNCHANGED <<toolVars, runVars, error, df_embeddings, command, class_name, method, todo,
                   query_vectors_info, summary_file>>

(* create_query_vectors_auto up to its loop over sorted(available_classes) *)
AutoStart ==
    /\ pc = "build"
    /\ command = "create_query_vectors_auto"
    /\ todo' = AvailableClasses(df_embeddings)
    /\ query_vectors_info' = <<>>
    /\ pc' = "auto_loop"
    /\ UNCHANGED <<toolVars, runVars, error, df_embeddings, command, class_name, method,
                   query_files, summary_file>>

(* One iteration of the loop with a method none of the branches handles    *)
AutoUnknownMethod ==
    /\ pc = "auto_loop"
    /\ todo # <<>>
    /\ method \notin KnownMethods
    /\ error' = <<"Unknown method:", method>>
    /\ pc' = "error"
    /\ UNCHANGED <<toolVars, runVars, builderVars>>

(* One iteration of the loop: aggregate, save the file, add a summary row  *)
AutoSaveClass ==
    /\ pc = "auto_loop"
    /\ todo # <<>>
    /\ method \in KnownMethods
    /\ LET c == Head(todo)
           rows == ClassEmbeddings(df_embeddings, c)
       IN  /\ query_files' = Save(query_files, AutoFileName(c), Aggregate(rows, method))
           /\ query_vectors_info' =
                 Append(query_vectors_info,
                        [class_name |-> c, file_path |-> AutoFileName(c),
                         num_embeddings |-> Len(rows), method |-> method])
    /\ todo' = Tail(todo)
    /\ UNCHANGED <<toolVars, runVars, pc, error, df_embeddings, command, class_name, method,
                   summary_file>>

(* After the loop: query_vectors_summary.csv is written                    *)
AutoSummary ==
    /\ pc = "auto_loop"
    /\ todo = <<>>
    /\ summary_file' = {query_vectors_info}
    /\ pc' = "built"
    /\ UNCHANGED <<toolVars, runVars, error, df_embeddings, command, class_name, method, todo,
                   query_files, query_vectors_info>>

(* One call of create_query_vector or create_query_vectors_auto on an      *)
(* embeddings file of at most MaxRows rows.                                *)
InitBuild ==
    /\ width = 2 /\ height = 2 /\ bands = 3 /\ invalid = {}
    /\ tile_size = 2 /\ overlap = 0
    /\ InitRun
    /\ NoTools
    /\ pc = "build"
    /\ \E n \in 0..MaxRows :
          df_embeddings \in [1..n -> [class_name : Range(Labels), image_embedding : EmbVecs]]
    /\ method \in Methods
    /\ \/ command = "create_query_vector" /\ class_name \in Range(Labels)
       \/ command = "create_query_vectors_auto" /\ class_name = <<>>
    /\ todo = <<>>
    /\ query_files = {} /\ query_vectors_info = <<>> /\ summary_file = {}

NextBuild ==
    \/ CreateQueryVectorNoClass
    \/ CreateQueryVectorUnknownMethod
    \/ CreateQueryVectorSave
    \/ AutoStart
    \/ AutoUnknownMethod
    \/ AutoSaveClass
    \/ AutoSummary

SpecBuild == InitBuild /\ [][NextBuild]_vars

(* ------------------------------ properties ---------------------------- *)
Classified == pc \in {"classified", "done"}

GridDone == pc = "done" /\ use_grid

TilePositions(meta) == {<<meta[k].tile_x, meta[k].tile_y>> : k \in 1..Len(meta)}

CosLeq(e, p1, p2) == Dot(e, p1) * Norm(p2) <= Dot(e, p2) * Norm(p1)

(* C2: best_class is the class of a prototype of maximum cosine similarity *)
(* to the tile, the first such prototype in prototype order, and           *)
(* query_similarity is that maximum cosine similarity.                     *)
C2_BestClassIsArgmax ==
    Classified =>
        \A t \in 1..Len(results) :
            \E k \in 1..Len(query_vectors) :
                LET e == tile_embeddings[t]
                    p == query_vectors[k].vector
                IN  /\ results[t].best_class = query_vectors[k].class_name
                    /\ \A j \in 1..Len(query_vectors) : CosLeq(e, query_vectors[j].vector, p)
                    /\ \A j \in 1..(k - 1) : ~CosLeq(e, p, query_vectors[j].vector)
                    /\ results[t].query_similarity * Norm(e) * Norm(p) = Dot(e, p) * UNIT * UNIT

C2_Witness ==
    /\ pc = "classified"
    /\ \E t \in 1..Len(results) : \E j, k \in 1..Len(query_vectors) :
          /\ j < k
          /\ CosLeq(tile_embeddings[t], query_vectors[j].vector, query_vectors[k].vector)
          /\ CosLeq(tile_embeddings[t], query_vectors[k].vector, query_vectors[j].vector)
          /\ results[t].best_class = query_vectors[j].class_name
    /\ \E t \in 1..Len(results) : results[t].best_class = query_vectors[2].class_name

(* Minimum positive difference between positions of an axis.               *)
MinSpacing(S) == SetMin({b - a : a, b \in S} \cap (1..(MaxW + MaxH + MaxTile)))

(* C3: in grid mode the cell width is the minimum positive difference      *)
(* between the distinct tile x-positions (the cell height likewise for y); *)
(* the tile's own pixel dimension is used only when the axis has fewer     *)
(* than 2 distinct positions.                                              *)
C3_CellSizeIsSpacing ==
    GridDone =>
        \A n \in 1..Len(cells) :
            /\ cells[n].tile_width =
                  IF Cardinality(XPositions(tile_metadata)) >= 2
                  THEN MinSpacing(XPositions(tile_metadata))
                  ELSE tile_metadata[1].tile_width
            /\ cells[n].tile_height =
                  IF Cardinality(YPositions(tile_metadata)) >= 2
                  THEN MinSpacing(YPositions(tile_metadata))
                  ELSE tile_metadata[1].tile_height

(* Pixel rectangles of two cells have disjoint interiors.                  *)
PixelDisjoint(a, b) ==
    \/ a.tile_x + a.tile_width <= b.tile_x
    \/ b.tile_x + b.tile_width <= a.tile_x
    \/ a.tile_y + a.tile_height <= b.tile_y
    \/ b.tile_y + b.tile_height <= a.tile_y

(* C4: the grid cells are pairwise non-overlapping in pixel space, and two *)
(* cells at consecutive scan positions of an axis share their common edge  *)
(* exactly.                                                                *)
C4_CellsDisjointAndAdjacent ==
    GridDone =>
        \A m, n \in 1..Len(cells) :
            m # n =>
                /\ PixelDisjoint(cells[m], cells[n])
                /\ (cells[n].tile_x = cells[m].tile_x + Step /\ cells[n].tile_y = cells[m].tile_y)
                      => /\ cells[m].polygon[2] = cells[n].polygon[1]
                         /\ cells[m].polygon[3] = cells[n].polygon[4]
                /\ (cells[n].tile_y = cells[m].tile_y + Step /\ cells[n].tile_x = cells[m].tile_x)
                      => /\ cells[m].polygon[4] = cells[n].polygon[1]
                         /\ cells[m].polygon[3] = cells[n].polygon[2]

(* C5: in grid mode there is exactly one cell per surviving tile position  *)
(* that has a result, none for a pair of the cross product of x- and       *)
(* y-positions without a tile, and as many cells as results.               *)
C5_OneCellPerTile ==
    GridDone =>
        /\ Len(cells) = Len(results)
        /\ {<<cells[n].tile_x, cells[n].tile_y>> : n \in 1..Len(cells)}
              = TilePositions(tile_metadata)
        /\ \A m, n \in 1..Len(cells) :
              m # n => <<cells[m].tile_x, cells[m].tile_y>> # <<cells[n].tile_x, cells[n].tile_y>>

C5_Witness ==
    /\ GridDone
    /\ Len(cells) >= 3
    /\ \E xp \in XPositions(tile_metadata) : \E yp \in YPositions(tile_metadata) :
          <<xp, yp>> \notin TilePositions(tile_metadata)

(* C6: each cell's corners are the geographic locations of the raster      *)
(* pixels (tile_x, tile_y), (tile_x + w, tile_y), (tile_x + w, tile_y + h),*)
(* (tile_x, tile_y + h) of the tile that owns the cell (w, h the cell      *)
(* size), obtained with that tile's window transform.                      *)
C6_CornersFromOwnTransform ==
    GridDone =>
        \A n \in 1..Len(cells) :
            LET c == cells[n]
                m == tile_metadata[c.tile_id + 1]
                R == SrcTransform
            IN  /\ m.tile_x = c.tile_x /\ m.tile_y = c.tile_y
                /\ c.polygon[1] = Apply(R, m.tile_x, m.tile_y)
                /\ c.polygon[2] = Apply(R, m.tile_x + c.tile_width, m.tile_y)
                /\ c.polygon[3] = Apply(R, m.tile_x + c.tile_width, m.tile_y + c.tile_height)
                /\ c.polygon[4] = Apply(R, m.tile_x, m.tile_y + c.tile_height)
                /\ c.polygon[1] = Apply(m.transform, c.tile_x - m.window.col_off,
                                        c.tile_y - m.window.row_off)

C6_Witness ==
    /\ GridDone
    /\ \E n \in 1..Len(cells) : cells[n].tile_x > 0 /\ cells[n].tile_y > 0

(* C7: with overlap 0 the grid shapefile and the detailed shapefile hold   *)
(* the same polygon for every tile.                                        *)
C7_GridEqualsDetailed ==
    (pc = "done" /\ overlap = 0) =>
        \A g \in Range(GridCells(results, tile_metadata)) :
            \A d \in Range(DetailedCells(results, tile_metadata)) :
                g.tile_id = d.tile_id => g.polygon = d.polygon

(* The embedding of item k when it is embedded on its own: the model's    *)
(* output for the item, or for the zero placeholder when it fails.         *)
OwnEmbedding(k) ==
    IF k \in fails THEN Normalize(EncodeImage(0))
    ELSE Normalize(EncodeImage(tiles[k].content))

TilesEmbedded == pc = "embedded"

CropsEmbedded == ci >= Len(tiles)

(* C8: both batched embedders return exactly N embeddings and N metadata   *)
(* entries, the k-th of each belonging to the k-th input item; a failed    *)
(* item holds the placeholder's embedding at its own position.             *)
C8_EmbeddingsAligned ==
    /\ Len(tile_embeddings) = Len(tile_metadata)
    /\ TilesEmbedded =>
          /\ Len(tile_embeddings) = Len(tiles)
          /\ \A k \in 1..Len(tiles) :
                /\ tile_metadata[k] = tiles[k]
                /\ tile_embeddings[k] = OwnEmbedding(k)
    /\ CropsEmbedded =>
          /\ Len(records) = Len(tiles)
          /\ \A k \in 1..Len(tiles) :
                /\ records[k].meta.object_id = k - 1
                /\ records[k].meta.class_id = tiles[k].content - 1
                /\ records[k].image_embedding = OwnEmbedding(k)

C8_Witness ==
    /\ TilesEmbedded
    /\ CropsEmbedded
    /\ Len(tiles) = 3
    /\ batch_size = 2
    /\ fails = {1, Len(tiles)}
    /\ tile_embeddings[2] # tile_embeddings[1]
    /\ Len(records) = Len(tiles)

RECURSIVE SeqSum(_)
SeqSum(s) == IF s = <<>> THEN 0 ELSE s[1] + SeqSum(Tail(s))

(* Batches are consecutive, full except possibly the last, and cover the   *)
(* input once the loop has ended.                                          *)
BatchesWellFormed(log, done) ==
    /\ \A n \in 1..Len(log) : log[n] >= 1 /\ log[n] <= batch_size
    /\ \A n \in 1..(Len(log) - 1) : log[n] = batch_size
    /\ (~done /\ Len(log) >= 1) => log[Len(log)] = batch_size
    /\ done => SeqSum(log) = Len(tiles)

(* C9: the inputs are split into consecutive batches of size <= B, only    *)
(* the last possibly smaller, and the concatenated output is the sequence  *)
(* of the items' own embeddings, in input order, for every batch size.     *)
C9_BatchInvariance ==
    /\ BatchesWellFormed(batch_log, TilesEmbedded)
    /\ BatchesWellFormed(crop_log, CropsEmbedded)
    /\ TilesEmbedded => tile_embeddings = [k \in 1..Len(tiles) |-> OwnEmbedding(k)]
    /\ CropsEmbedded =>
          [k \in 1..Len(records) |-> records[k].image_embedding]
              = [k \in 1..Len(tiles) |-> OwnEmbedding(k)]
    /\ (TilesEmbedded /\ CropsEmbedded) =>
          [k \in 1..Len(records) |-> records[k].image_embedding] = tile_embeddings

C9_Witness ==
    /\ TilesEmbedded
    /\ CropsEmbedded
    /\ Len(tiles) = 3
    /\ batch_size = 2
    /\ Len(batch_log) = 2
    /\ batch_log[Len(batch_log)] < batch_size
    /\ crop_log = batch_log

(* C10: every emitted tile has tile_width = tile_height = tile_size and    *)
(* lies fully inside the raster.                                           *)
C10_TilesFullSizeInside ==
    \A k \in 1..Len(tiles) :
        /\ tiles[k].tile_width = tile_size
        /\ tiles[k].tile_height = tile_size
        /\ tiles[k].tile_x >= 0 /\ tiles[k].tile_y >= 0
        /\ tiles[k].tile_x + tile_size <= width
        /\ tiles[k].tile_y + tile_size <= height

(* A tile was emitted and the scan also met windows clipped by the right   *)
(* and by the bottom edge.                                                 *)
C10_Witness ==
    /\ pc = "tiles_done"
    /\ Len(tiles) >= 1
    /\ \E cx \in 0..(width - 1) : cx % Step = 0 /\ cx + tile_size > width
    /\ \E cy \in 0..(height - 1) : cy % Step = 0 /\ cy + tile_size > height

(* C11: no emitted tile contains a masked pixel: a candidate window with   *)
(* at least one masked pixel is rejected, whatever its share of valid      *)
(* pixels.                                                                 *)
C11_NoInvalidPixelInTile ==
    \A k \in 1..Len(tiles) :
        WindowPixels(tiles[k].tile_x, tiles[k].tile_y,
                     tiles[k].tile_width, tiles[k].tile_height) \cap invalid = {}

(* The scan emitted a tile and rejected a full-size 3-band window in which *)
(* a single pixel is masked.                                               *)
C11_Witness ==
    /\ pc = "tiles_done"
    /\ Len(tiles) >= 1
    /\ bands = 3
    /\ \E cx \in 0..(width - tile_size), cy \in 0..(height - tile_size) :
          /\ cx % Step = 0 /\ cy % Step = 0
          /\ Cardinality(WindowPixels(cx, cy, tile_size, tile_size) \cap invalid) = 1
          /\ \A k \in 1..Len(tiles) : <<tiles[k].tile_x, tiles[k].tile_y>> # <<cx, cy>>

LexLess(a, b) == a[1] < b[1] \/ (a[1] = b[1] /\ a[2] < b[2])

(* C12: the tiles are returned in row-major order: their (row, col) pairs  *)
(* and their (tile_y, tile_x) pairs are strictly increasing in             *)
(* lexicographic order, so no grid position occurs twice.                  *)
C12_RowMajorOrder ==
    \A j \in 1..Len(tiles) : \A k \in (j + 1)..Len(tiles) :
        /\ LexLess(<<tiles[j].row, tiles[j].col>>, <<tiles[k].row, tiles[k].col>>)
        /\ LexLess(<<tiles[j].tile_y, tiles[j].tile_x>>, <<tiles[k].tile_y, tiles[k].tile_x>>)

(* Two tiles of one row followed by a tile of a later row.                 *)
C12_Witness ==
    /\ pc = "tiles_done"
    /\ Len(tiles) >= 3
    /\ tiles[1].row = tiles[2].row
    /\ tiles[1].col < tiles[2].col
    /\ tiles[Len(tiles)].row > tiles[1].row
    /\ tiles[Len(tiles)].col < tiles[2].col

(* The candidate windows in scan order, numbered from 0, and the tile list *)
(* as a function of the raster and the parameters alone.                   *)
NumCols == ((width - 1) \div (tile_size - overlap)) + 1

NumRows == ((height - 1) \div (tile_size - overlap)) + 1

CandX(n) == (tile_size - overlap) * (n % NumCols)

CandY(n) == (tile_size - overlap) * (n \div NumCols)

Survives(n) ==
    /\ CandX(n) + tile_size <= width
    /\ CandY(n) + tile_size <= height
    /\ \A p \in invalid : ~(/\ p[1] >= CandX(n) /\ p[1] < CandX(n) + tile_size
                            /\ p[2] >= CandY(n) /\ p[2] < CandY(n) + tile_size)
    /\ bands >= 3

TileAt(n) ==
    [tile_x |-> CandX(n), tile_y |-> CandY(n),
     tile_width |-> tile_size, tile_height |-> tile_size,
     row |-> n \div NumCols, col |-> n % NumCols,
     window |-> [col_off |-> CandX(n), row_off |-> CandY(n),
                 width |-> tile_size, height |-> tile_size],
     transform |-> WindowTransform(SrcTransform, CandX(n), CandY(n)),
     content |-> PixelClass(CandX(n), CandY(n))]

ExpectedTiles(n) ==
    LET kept == SelectSeq([k \in 1..n |-> k - 1], Survives)
    IN  [j \in 1..Len(kept) |-> TileAt(kept[j])]

Scanned ==
    IF pc = "extract" THEN row * NumCols + col
    ELSE IF pc = "load_query" \/ (pc = "error" /\ query_vectors = <<>>) THEN 0
    ELSE NumCols * NumRows

(* C13: the tile sequence is determined by the raster and the parameters:  *)
(* at every point of the scan it is the same function of the raster, the   *)
(* tile size, the overlap and the number of windows visited, so two runs   *)
(* on the same inputs return identical sequences.                          *)
C13_TilesDetermined == tiles = ExpectedTiles(Scanned)

(* A finished scan over a masked raster that kept some windows and         *)
(* rejected others.                                                        *)
C13_Witness ==
    /\ pc = "tiles_done"
    /\ invalid # {}
    /\ Len(tiles) >= 2
    /\ Len(tiles) < NumCols * NumRows
    /\ overlap = 1

NothingComputed ==
    /\ tile_embeddings = <<>> /\ tile_metadata = <<>> /\ batch_log = <<>>
    /\ results = <<>> /\ cells = <<>> /\ qml = <<>> /\ geojson = <<>>

(* C14: when the scan ends without a tile, run_process stops with the      *)
(* error "No tiles extracted!": no batch is sent to the embedding model,   *)
(* no tile is classified and no result table, shapefile or style file is   *)
(* written.                                                                *)
C14_NoTilesFailsFirst ==
    (pc \notin {"load_query", "extract"} /\ query_vectors # <<>> /\ tiles = <<>>) =>
        /\ pc \in {"tiles_done", "error"}
        /\ pc = "error" => error = <<"No tiles extracted!">>
        /\ pc = "tiles_done" => error = <<>>
        /\ NothingComputed

(* The run failed on a 3-band raster large enough for a tile, whose only   *)
(* full windows hold a masked pixel.                                       *)
C14_Witness ==
    /\ pc = "error"
    /\ error = <<"No tiles extracted!">>
    /\ bands = 3
    /\ width >= tile_size /\ height >= tile_size
    /\ invalid # {}

NoPrototypeErrors == {<<"No query vector files found">>, <<"No valid query vectors loaded">>}

RankIn(c, classes) == Cardinality({d \in classes : ClassRank(d) < ClassRank(c)})

RECURSIVE Reverse(_)
Reverse(sq) == IF sq = <<>> THEN <<>> ELSE Append(Reverse(Tail(sq)), sq[1])

(* C16: the class-to-colour mapping is a function of the set of distinct   *)
(* best_class values: the class at position i of the n classes in          *)
(* ascending order has the colour of hue i/n, whatever the order of the    *)
(* results, and the style file lists each class once with that colour.     *)
C16_ColorsFromClassSet ==
    Classified =>
        /\ DOMAIN ClassToColor(results) = BestClasses(results)
        /\ \A c \in BestClasses(results) :
              ClassToColor(results)[c]
                  = HsvToRgb(RankIn(c, BestClasses(results)), Cardinality(BestClasses(results)))
        /\ ClassToColor(Reverse(results)) = ClassToColor(results)
        /\ pc = "done" =>
              /\ Len(qml) = Cardinality(BestClasses(results))
              /\ \A k \in 1..Len(qml) :
                    /\ qml[k].value \in BestClasses(results)
                    /\ RankIn(qml[k].value, BestClasses(results)) = k - 1
                    /\ qml[k].color = HsvToRgb(k - 1, Len(qml))

(* Two classes, the later one in string order met first in the results.    *)
C16_Witness ==
    /\ pc = "done"
    /\ Len(qml) = 2
    /\ Len(results) >= 3
    /\ results[1].best_class = ClassNames[2]
    /\ results[Len(results)].best_class = ClassNames[1]
    /\ qml[1].color # qml[2].color

(* C17: in both shapefile modes every polygon has the best_class and the   *)
(* rounded similarity of its own result, and its red, green, blue and      *)
(* color_hex are the colour the class-to-colour mapping and the style file *)
(* give that class, hierarchical names included.                           *)
C17_PolygonColorOfOwnClass ==
    pc = "done" =>
        \A n \in 1..Len(cells) :
            /\ \E j \in 1..Len(results) :
                  /\ results[j].tile_id = cells[n].tile_id
                  /\ results[j].best_class = cells[n].best_class
                  /\ Round4(results[j].query_similarity) = cells[n].similarity
            /\ <<cells[n].red, cells[n].green, cells[n].blue>>
                  = ClassToColor(results)[cells[n].best_class]
            /\ \E k \in 1..Len(qml) :
                  /\ qml[k].value = cells[n].best_class
                  /\ qml[k].color = <<cells[n].red, cells[n].green, cells[n].blue>>
            /\ cells[n].color_hex = ColorHex(ClassToColor(results)[cells[n].best_class])

(* C18: create_query_vector for a class without a row in the embeddings    *)
(* file ends in the error that names the class and writes no file; no      *)
(* written prototype is a 0/0 vector.                                      *)
C18_NoEmbeddingsFails ==
    /\ (command = "create_query_vector" /\ pc # "build"
            /\ ClassEmbeddings(df_embeddings, class_name) = <<>>) =>
          /\ pc = "error"
          /\ error = <<"No embeddings found for class", class_name>>
          /\ query_files = {}
          /\ summary_file = {}
    /\ \A f \in query_files : f[2].den # 0

(* The file holds two rows of other classes.                               *)
C18_Witness ==
    /\ pc = "error"
    /\ command = "create_query_vector"
    /\ error = <<"No embeddings found for class", class_name>>
    /\ Len(df_embeddings) = 2
    /\ method = "median"

(* C19: with a method other than mean, median and centroid both builder    *)
(* functions end in an error for every embeddings file: they never end     *)
(* successfully and write neither a prototype nor a summary.               *)
C19_UnknownMethodFails ==
    (command # "none" /\ method \notin KnownMethods) =>
        /\ pc \in {"build", "auto_loop", "error"}
        /\ query_files = {}
        /\ summary_file = {}

FileLabels == {df_embeddings[k].class_name : k \in 1..Len(df_embeddings)}

(* C20: a finished create_query_vectors_auto has written one prototype     *)
(* file per distinct class label, no two labels sharing a file, and a      *)
(* summary with one row per label holding the label's number of rows and   *)
(* the requested method; the numbers add up to the number of rows.         *)
C20_OneFilePerLabel ==
    (command = "create_query_vectors_auto" /\ pc = "built") =>
        /\ Cardinality(query_files) = Cardinality(FileLabels)
        /\ \A c \in FileLabels :
              \E f \in query_files :
                  f = <<AutoFileName(c), Aggregate(ClassEmbeddings(df_embeddings, c), method)>>
        /\ summary_file = {query_vectors_info}
        /\ Len(query_vectors_info) = Cardinality(FileLabels)
        /\ \A j \in 1..Len(query_vectors_info) : \A k \in 1..Len(query_vectors_info) :
              j # k => /\ query_vectors_info[j].class_name # query_vectors_info[k].class_name
                       /\ query_vectors_info[j].file_path # query_vectors_info[k].file_path
        /\ \A k \in 1..Len(query_vectors_info) :
              /\ query_vectors_info[k].class_name \in FileLabels
              /\ query_vectors_info[k].num_embeddings
                    = Len(ClassEmbeddings(df_embeddings, query_vectors_info[k].class_name))
              /\ query_vectors_info[k].method = method
        /\ SeqSum([k \in 1..Len(query_vectors_info) |-> query_vectors_info[k].num_embeddings])
              = Len(df_embeddings)

(* Path.stem of a written file: the name without its ".npy" suffix         *)
FileStem(file) == SubSeq(file, 1, Len(file) - 1)

(* stem.replace('query_', '')                                              *)
RemoveQueryPrefix(stem) ==
    LET keep(t) == t # "query_"
    IN  SelectSeq(stem, keep)

(* The class name run_process gives the prototype of a file                *)
LoadedClassName(file) == ClassNameOfStem(RemoveQueryPrefix(FileStem(file)))

(* C21: the class name run_process reconstructs from a file name written   *)
(* by create_query_vectors_auto is the class label the file was written    *)
(* for.                                                                    *)
C21_ClassNameRoundTrip ==
    (command = "create_query_vectors_auto" /\ pc = "built") =>
        \A k \in 1..Len(query_vectors_info) :
            LoadedClassName(query_vectors_info[k].file_path)
                = query_vectors_info[k].class_name

RECURSIVE SortVals(_)
(* The entries of a sequence of integers in ascending order                *)
SortVals(vals) ==
    IF vals = <<>> THEN <<>>
    ELSE LET lo == SetMin(Range(vals))
             at == CHOOSE k \in 1..Len(vals) : vals[k] = lo
         IN  <<lo>> \o SortVals(SubSeq(vals, 1, at - 1) \o SubSeq(vals, at + 1, Len(vals)))

(* p is the element-wise arithmetic mean of embs, not normalised           *)
IsMean(p, embs) ==
    /\ ~p.unit
    /\ p.den > 0
    /\ \A c \in 1..2 : SeqSum([k \in 1..Len(embs) |-> p.den * embs[k][c] - p.num[c]]) = 0

(* p is the element-wise median of embs, not normalised                    *)
IsMedian(p, embs) ==
    /\ ~p.unit
    /\ p.den > 0
    /\ \A c \in 1..2 :
          LET sorted == SortVals([k \in 1..Len(embs) |-> embs[k][c]])
              n == Len(sorted)
          IN  IF n % 2 = 1 THEN p.num[c] = p.den * sorted[(n + 1) \div 2]
              ELSE 2 * p.num[c] = p.den * (sorted[n \div 2] + sorted[(n \div 2) + 1])

(* p is the unit vector in the direction of the mean of the unit vectors   *)
(* e / |e|: with all norms integers, that direction is the sum of          *)
(* e * (product of the norms) / |e|.                                       *)
IsCentroid(p, embs) ==
    LET scale == Norm(<<3, 4>>) * Norm(<<5, 12>>)
        dir == VecSum([k \in 1..Len(embs) |->
                          <<(embs[k][1] * scale) \div Norm(embs[k]),
                            (embs[k][2] * scale) \div Norm(embs[k])>>])
    IN  /\ p.unit
        /\ p.num[1] * dir[2] = p.num[2] * dir[1]
        /\ Dot(p.num, dir) > 0

IsReference(p, embs, m) ==
    CASE m = "mean" -> IsMean(p, embs)
      [] m = "median" -> IsMedian(p, embs)
      [] m = "centroid" -> IsCentroid(p, embs)

EmbeddingsOf(c) ==
    LET rows == ClassEmbeddings(df_embeddings, c)
    IN  [k \in 1..Len(rows) |-> rows[k].image_embedding]

Written(file) == {f[2] : f \in {g \in query_files : g[1] = file}}

(* C27: the prototype create_query_vector writes for its class, and the    *)
(* prototype create_query_vectors_auto writes for the class of each pass   *)
(* of its loop, is the reference prototype of that class's embeddings for  *)
(* the method: the mean or the median unnormalised, the centroid the       *)
(* normalised mean of the normalised embeddings; so the two functions      *)
(* agree.                                                                  *)
C27_PrototypeIsReference ==
    /\ (command = "create_query_vector" /\ pc = "built") =>
          /\ Written(OutputFile) # {}
          /\ \A p \in Written(OutputFile) : IsReference(p, EmbeddingsOf(class_name), method)
    /\ (command = "create_query_vectors_auto" /\ query_vectors_info # <<>>) =>
          LET last == query_vectors_info[Len(query_vectors_info)]
          IN  /\ Written(last.file_path) # {}
              /\ \A p \in Written(last.file_path) :
                    IsReference(p, EmbeddingsOf(last.class_name), method)

(* A class with three different rows, its mean written by the loop.        *)
C27_Witness ==
    /\ command = "create_query_vectors_auto"
    /\ pc = "built"
    /\ method = "mean"
    /\ Len(query_vectors_info) = 1
    /\ Len(df_embeddings) = 3
    /\ df_embeddings[1].image_embedding # df_embeddings[2].image_embedding

ScanOver == pc \in {"tiles_done", "embed", "embedded", "classified", "done"}
               \/ (pc = "error" /\ query_vectors # <<>>)

(* The tiles emitted at candidate position n of the scan                   *)
EmittedAt(n) ==
    {k \in 1..Len(tiles) : tiles[k].tile_x = CandX(n) /\ tiles[k].tile_y = CandY(n)}

FullAndUnmasked(n) ==
    /\ CandX(n) + tile_size <= width
    /\ CandY(n) + tile_size <= height
    /\ WindowPixels(CandX(n), CandY(n), tile_size, tile_size) \cap invalid = {}

(* C29 as claimed: a candidate window is emitted, exactly once, if and     *)
(* only if it is full size and none of its pixels is masked; nothing else  *)
(* drops a window.                                                         *)
C29_EmittedIffFullAndUnmasked ==
    ScanOver =>
        /\ \A n \in 0..(NumCols * NumRows - 1) :
              Cardinality(EmittedAt(n)) = (IF FullAndUnmasked(n) THEN 1 ELSE 0)
        /\ \A k \in 1..Len(tiles) : \E n \in 0..(NumCols * NumRows - 1) : k \in EmittedAt(n)

(* C29, amended: a candidate window is emitted, exactly once, if and only  *)
(* if it is full size, none of its pixels is masked and the raster has at  *)
(* least three bands; nothing else drops a window.                         *)
C29_EmittedIffFullUnmaskedRgb ==
    ScanOver =>
        /\ \A n \in 0..(NumCols * NumRows - 1) :
              Cardinality(EmittedAt(n))
                  = (IF FullAndUnmasked(n) /\ bands >= 3 THEN 1 ELSE 0)
        /\ \A k \in 1..Len(tiles) : \E n \in 0..(NumCols * NumRows - 1) : k \in EmittedAt(n)

(* A scan that kept a window, dropped one at the right edge and dropped    *)
(* one for a masked pixel in its last row.                                 *)
C29_Witness ==
    /\ pc = "tiles_done"
    /\ bands = 3
    /\ Len(tiles) >= 1
    /\ \E n \in 0..(NumCols * NumRows - 1) : CandX(n) + tile_size > width
    /\ \E n \in 0..(NumCols * NumRows - 1) :
          /\ CandX(n) + tile_size <= width /\ CandY(n) + tile_size <= height
          /\ WindowPixels(CandX(n), CandY(n) + tile_size - 1, tile_size, 1) \cap invalid # {}

(* C30: every emitted tile has tile_x = col * (tile_size - overlap) and    *)
(* tile_y = row * (tile_size - overlap), whatever windows were rejected    *)
(* before it.                                                              *)
C30_RowColMatchPosition ==
    \A k \in 1..Len(tiles) :
        /\ tiles[k].tile_x = tiles[k].col * (tile_size - overlap)
        /\ tiles[k].tile_y = tiles[k].row * (tile_size - overlap)

(* The first window of the scan was rejected for a masked pixel, the next  *)
(* one of its row was emitted, and so was a window of a later row.         *)
C30_Witness ==
    /\ pc = "tiles_done"
    /\ invalid # {}
    /\ Len(tiles) >= 2
    /\ tiles[1].row = 0
    /\ tiles[1].col >= 1
    /\ tiles[Len(tiles)].row >= 1

(* Geographic corners of the pixel window of a tile in the source raster   *)
Footprint(f) ==
    <<Apply(SrcTransform, f.tile_x, f.tile_y),
      Apply(SrcTransform, f.tile_x + f.tile_width, f.tile_y),
      Apply(SrcTransform, f.tile_x + f.tile_width, f.tile_y + f.tile_height),
      Apply(SrcTransform, f.tile_x, f.tile_y + f.tile_height)>>

(* C28: every polygon of the detailed shapefile and of the GeoJSON file is *)
(* the geographic footprint of its tile's pixel window in the source       *)
(* raster, for every tile and not only the one at the raster origin.       *)
C28_PolygonIsFootprint ==
    pc = "done" =>
        /\ ~use_grid => \A n \in 1..Len(cells) : cells[n].polygon = Footprint(cells[n])
        /\ \A n \in 1..Len(geojson) : geojson[n].polygon = Footprint(geojson[n])

ZeroNormItems(n) == {k \in 1..n : Norm(EncodeImage(Preprocess(k))) = 0}

(* C23: when the model returns a vector of norm zero for an item, the      *)
(* batched embedder ends in an error: no embedding of its output is nan.   *)
C23_ZeroNormIsError ==
    /\ ZeroNormItems(Len(tile_embeddings)) # {} => pc = "error"
    /\ ZeroNormItems(Len(records)) # {} => pc = "error"
    /\ \A k \in 1..Len(tile_embeddings) : tile_embeddings[k] # NaNVec
    /\ \A k \in 1..Len(records) : records[k].image_embedding # NaNVec

(* ------------------- input validation of the two commands ------------- *)
(* The start of run_process and of run_yolotoclip, up to their outputs:    *)
(* any set of the input paths may be absent.                               *)
ProcessInputs == {"geotiff_path", "query_vector_path", "embeddings_file", "color_csv"}

YoloInputs == {"images_dir", "labels_dir", "classes_file"}

RequiredInputs(cmd) ==
    IF cmd = "run_process"
    THEN {"geotiff_path", "query_vector_path", "embeddings_file"}
    ELSE IF cmd = "run_yolotoclip" THEN YoloInputs ELSE {}

Proceed(from, to, effect) ==
    /\ pc = from
    /\ pc' = to
    /\ effects' = Append(effects, effect)
    /\ UNCHANGED <<runVars, builderVars, configVars, pixelVars, collectVars, error, absent>>

Raise(from, message) ==
    /\ pc = from
    /\ pc' = "error"
    /\ error' = <<message>>
    /\ UNCHANGED <<runVars, builderVars, configVars, pixelVars, collectVars, preflightVars>>

(* load_color_map: reads the CSV when it is there, returns None otherwise  *)
LoadColorMap ==
    /\ command = "run_process"
    /\ pc = "start"
    /\ pc' = "validate"
    /\ effects' = IF "color_csv" \in absent THEN effects
                  ELSE Append(effects, "read color_csv")
    /\ UNCHANGED <<runVars, builderVars, configVars, pixelVars, collectVars, error, absent>>

GeoTiffNotFound ==
    /\ command = "run_process"
    /\ "geotiff_path" \in absent
    /\ Raise("validate", "GeoTIFF file not found")

QueryVectorNotFound ==
    /\ command = "run_process"
    /\ "geotiff_path" \notin absent
    /\ "query_vector_path" \in absent
    /\ Raise("validate", "Query vector file not found")

EmbeddingsNotFound ==
    /\ command = "run_process"
    /\ "geotiff_path" \notin absent
    /\ "query_vector_path" \notin absent
    /\ "embeddings_file" \in absent
    /\ Raise("validate", "Embeddings file not found")

ReadQueryVectors ==
    /\ command = "run_process"
    /\ RequiredInputs(command) \cap absent = {}
    /\ Proceed("validate", "read_embeddings", "read query_vector_path")

ReadEmbeddings ==
    /\ command = "run_process"
    /\ Proceed("read_embeddings", "load_model", "read embeddings_file")

ProcessLoadModel ==
    /\ command = "run_process"
    /\ Proceed("load_model", "extract", "clip.load")

ExtractTiles ==
    /\ command = "run_process"
    /\ Proceed("extract", "save", "read tiles")

SaveResults ==
    /\ command = "run_process"
    /\ Proceed("save", "done", "write output_file")

YoloLoadModel ==
    /\ command = "run_yolotoclip"
    /\ Proceed("start", "validate", "clip.load")

ImagesDirNotFound ==
    /\ command = "run_yolotoclip"
    /\ "images_dir" \in absent
    /\ Raise("validate", "Images directory not found")

LabelsDirNotFound ==
    /\ command = "run_yolotoclip"
    /\ "images_dir" \notin absent
    /\ "labels_dir" \in absent
    /\ Raise("validate", "Labels directory not found")

ClassesFileNotFound ==
    /\ command = "run_yolotoclip"
    /\ "images_dir" \notin absent
    /\ "labels_dir" \notin absent
    /\ "classes_file" \in absent
    /\ Raise("validate", "Could not find classes.txt in root directory")

ReadClasses ==
    /\ command = "run_yolotoclip"
    /\ RequiredInputs(command) \cap absent = {}
    /\ Proceed("validate", "collect", "read classes_file")

CollectCrops ==
    /\ command = "run_yolotoclip"
    /\ Proceed("collect", "save", "read crops")

SaveEmbeddings ==
    /\ command = "run_yolotoclip"
    /\ Proceed("save", "done", "write output_file")

InitPreflight ==
    /\ width = 2 /\ height = 2 /\ bands = 3 /\ invalid = {}
    /\ tile_size = 2 /\ overlap = 0
    /\ InitRun
    /\ df_embeddings = <<>>
    /\ command \in {"run_process", "run_yolotoclip"}
    /\ class_name = <<>> /\ method = "mean" /\ todo = <<>>
    /\ query_files = {} /\ query_vectors_info = <<>> /\ summary_file = {}
    /\ absent \in SUBSET (ProcessInputs \cup YoloInputs)
    /\ effects = <<>>
    /\ NoCollect
    /\ NoPixels
    /\ NoConfig
    /\ pc = "start"

NextPreflight ==
    \/ LoadColorMap
    \/ GeoTiffNotFound
    \/ QueryVectorNotFound
    \/ EmbeddingsNotFound
    \/ ReadQueryVectors
    \/ ReadEmbeddings
    \/ ProcessLoadModel
    \/ ExtractTiles
    \/ SaveResults
    \/ YoloLoadModel
    \/ ImagesDirNotFound
    \/ LabelsDirNotFound
    \/ ClassesFileNotFound
    \/ ReadClasses
    \/ CollectCrops
    \/ SaveEmbeddings

SpecPreflight == InitPreflight /\ [][NextPreflight]_vars

Heavy == {"clip.load", "read tiles", "read crops", "write output_file"}

(* C22: when a required input path of the command is absent, the run ends  *)
(* in an error, and at no point has it loaded the embedding model, read a   *)
(* tile or a crop, or written an output file.                               *)
C22_AbsentInputAbortsFirst ==
    RequiredInputs(command) \cap absent # {} =>
        /\ pc \in {"start", "validate", "error"}
        /\ \A k \in 1..Len(effects) : effects[k] \notin Heavy

(* ---------------------- collect_crops_and_metadata -------------------- *)
(* One label file of at most MaxLines lines against a class list of at     *)
(* most MaxClasses classes; the image is ImageW x ImageH pixels.           *)
ImageW == 2 + 2

ImageH == 2 + 2

ClassList == <<"person", "car", "boat", "bird">>

(* Boxes <<x_center, y_center, w, h>> in pixels (already times W and H):   *)
(* one clipped at the left edge, one of no area.                           *)
Boxes == {<<0, 2, 2, 2>>, <<2, 2, 0, 0>>}

(* A line is blank (<<>>) or holds a class id and a box.                   *)
LabelLines(n) ==
    {<<>>} \cup [class_id : (0 - n - 1)..n, box : Boxes]

Max(a, b) == IF a > b THEN a ELSE b

Bbox(box) ==
    LET x_center == box[1]
        y_center == box[2]
        w == box[3]
        h == box[4]
    IN  <<Max(0, x_center - w \div 2), Max(0, y_center - h \div 2),
          Min(ImageW, x_center + w \div 2), Min(ImageH, y_center + h \div 2)>>

CropOf(image, bbox) == [image |-> image, region |-> bbox]

(* class_prompts[class_id] of python: a negative index counts from the end *)
PyIndex(list, k) == IF k < 0 THEN list[Len(list) + k + 1] ELSE list[k + 1]

Line == label_lines[line_no + 1]

NextLine ==
    /\ line_no' = line_no + 1
    /\ pc' = IF line_no + 1 < Len(label_lines) THEN "collect" ELSE "collected"

Reading == pc = "collect" /\ image_found /\ line_no < Len(label_lines)

NoMatchingImage ==
    /\ pc = "collect"
    /\ ~image_found
    /\ pc' = "collected"
    /\ UNCHANGED <<runVars, builderVars, configVars, pixelVars, preflightVars, error, collectVars>>

EmptyLabelFile ==
    /\ pc = "collect"
    /\ image_found
    /\ Len(label_lines) = 0
    /\ pc' = "collected"
    /\ UNCHANGED <<runVars, builderVars, configVars, pixelVars, preflightVars, error, collectVars>>

SkipBlankLine ==
    /\ Reading
    /\ Line = <<>>
    /\ NextLine
    /\ UNCHANGED <<runVars, builderVars, configVars, pixelVars, preflightVars, error, class_prompts, image_found,
                   label_lines, crops, crop_metadata>>

SkipInvalidClassId ==
    /\ Reading
    /\ Line # <<>>
    /\ Line.class_id >= Len(class_prompts)
    /\ NextLine
    /\ UNCHANGED <<runVars, builderVars, configVars, pixelVars, preflightVars, error, class_prompts, image_found,
                   label_lines, crops, crop_metadata>>

(* class_prompts[class_id] with class_id < -len raises IndexError          *)
ClassIndexError ==
    /\ Reading
    /\ Line # <<>>
    /\ Line.class_id < 0 - Len(class_prompts)
    /\ pc' = "error"
    /\ error' = <<"IndexError">>
    /\ UNCHANGED <<runVars, builderVars, configVars, pixelVars, preflightVars, collectVars>>

Indexable ==
    /\ Line # <<>>
    /\ Line.class_id < Len(class_prompts)
    /\ Line.class_id >= 0 - Len(class_prompts)

SkipInvalidBbox ==
    /\ Reading
    /\ Indexable
    /\ Bbox(Line.box)[3] <= Bbox(Line.box)[1] \/ Bbox(Line.box)[4] <= Bbox(Line.box)[2]
    /\ NextLine
    /\ UNCHANGED <<runVars, builderVars, configVars, pixelVars, preflightVars, error, class_prompts, image_found,
                   label_lines, crops, crop_metadata>>

AppendCrop ==
    /\ Reading
    /\ Indexable
    /\ ~(Bbox(Line.box)[3] <= Bbox(Line.box)[1] \/ Bbox(Line.box)[4] <= Bbox(Line.box)[2])
    /\ crops' = Append(crops, CropOf("test.jpg", Bbox(Line.box)))
    /\ crop_metadata' = Append(crop_metadata,
           [image |-> "test.jpg", object_id |-> line_no, class_id |-> Line.class_id,
            class_name |-> PyIndex(class_prompts, Line.class_id),
            bbox |-> Bbox(Line.box)])
    /\ NextLine
    /\ UNCHANGED <<runVars, builderVars, configVars, pixelVars, preflightVars, error, class_prompts, image_found,
                   label_lines>>

InitCrops ==
    /\ width = 2 /\ height = 2 /\ bands = 3 /\ invalid = {}
    /\ tile_size = 2 /\ overlap = 0
    /\ InitRun
    /\ NoBuilder
    /\ NoPreflight
    /\ NoPixels
    /\ NoConfig
    /\ \E n \in 1..MaxClasses :
          /\ class_prompts = SubSeq(ClassList, 1, n)
          /\ \E m \in 0..MaxLines : label_lines \in [1..m -> LabelLines(n)]
    /\ image_found \in BOOLEAN
    /\ line_no = 0 /\ crops = <<>> /\ crop_metadata = <<>>
    /\ pc = "collect"

NextCrops ==
    \/ NoMatchingImage
    \/ EmptyLabelFile
    \/ SkipBlankLine
    \/ SkipInvalidClassId
    \/ ClassIndexError
    \/ SkipInvalidBbox
    \/ AppendCrop

SpecCrops == InitCrops /\ [][NextCrops]_vars

(* C25: crops and metadata have the same length, the i-th metadata         *)
(* describes the i-th crop, and every metadata entry has a class id that   *)
(* is a valid index of the class list, with the class name at that index.  *)
C25_CropsMatchValidClasses ==
    /\ Len(crops) = Len(crop_metadata)
    /\ \A k \in 1..Len(crop_metadata) :
          /\ k <= Len(crops)
          /\ crops[k] = CropOf(crop_metadata[k].image, crop_metadata[k].bbox)
          /\ crop_metadata[k].class_id \in 0..(Len(class_prompts) - 1)
          /\ crop_metadata[k].class_name = class_prompts[crop_metadata[k].class_id + 1]
          /\ label_lines[crop_metadata[k].object_id + 1].class_id = crop_metadata[k].class_id

(* ------------------- pixel normalisation of one tile ------------------ *)
(* The values of one window of at most MaxPix pixels, counted in halves    *)
(* (2 is the raw value 1), and the bytes extract_geotiff_tiles makes of    *)
(* them.                                                                   *)
DTypes == {"uint8", "int16", "float32"}

RawValues(t) ==
    IF t = "uint8" THEN {0, 2, 6, 510}
    ELSE IF t = "int16" THEN {0 - 2, 0, 2, 8}
    ELSE {0 - 2, 0, 1, 2, 8}

TileMax(t) == SetMax(Range(t))

TileMin(t) == SetMin(Range(t))

(* the integer part of n / d, rounded towards zero                         *)
Trunc(n, d) == IF n >= 0 THEN n \div d ELSE 0 - ((0 - n) \div d)

(* astype(np.uint8) of the value n / d. From an integer type it wraps; a   *)
(* float outside the byte range has no defined result: it wraps or         *)
(* saturates, depending on the build.                                      *)
AsUint8(t, n, d) ==
    LET v == Trunc(n, d)
    IN  IF v \in 0..255 THEN {v}
        ELSE IF t = "float32" THEN {v % 256, IF v < 0 THEN 0 ELSE 255}
        ELSE {v % 256}

(* astype(np.uint8) of nan is not defined either                           *)
NanAsUint8 == {0, 255}

Tiles(outcomes) ==
    {out \in [DOMAIN outcomes -> UNION Range(outcomes)] :
        \A k \in DOMAIN outcomes : out[k] \in outcomes[k]}

KeepUint8 ==
    /\ pc = "read"
    /\ dtype = "uint8"
    /\ rgb_tile' = [k \in DOMAIN tile_data |-> tile_data[k] \div 2]
    /\ pc' = "normalized"
    /\ UNCHANGED <<runVars, builderVars, configVars, preflightVars, collectVars, error, dtype, tile_data>>

(* rgb_tile.max() <= 1.0: (rgb_tile * 255).astype(np.uint8)                *)
ScaleUnitRange ==
    /\ pc = "read"
    /\ dtype # "uint8"
    /\ TileMax(tile_data) <= 2
    /\ rgb_tile' \in Tiles([k \in DOMAIN tile_data |-> AsUint8(dtype, tile_data[k] * 255, 2)])
    /\ pc' = "normalized"
    /\ UNCHANGED <<runVars, builderVars, configVars, preflightVars, collectVars, error, dtype, tile_data>>

(* ((rgb_tile - min) / (max - min) * 255).astype(np.uint8)                 *)
StretchMinMax ==
    /\ pc = "read"
    /\ dtype # "uint8"
    /\ TileMax(tile_data) > 2
    /\ TileMax(tile_data) # TileMin(tile_data)
    /\ rgb_tile' \in Tiles([k \in DOMAIN tile_data |->
           AsUint8("float32", (tile_data[k] - TileMin(tile_data)) * 255,
                   TileMax(tile_data) - TileMin(tile_data))])
    /\ pc' = "normalized"
    /\ UNCHANGED <<runVars, builderVars, configVars, preflightVars, collectVars, error, dtype, tile_data>>

(* max = min: 0 / 0 is nan in every pixel                                  *)
StretchFlatTile ==
    /\ pc = "read"
    /\ dtype # "uint8"
    /\ TileMax(tile_data) > 2
    /\ TileMax(tile_data) = TileMin(tile_data)
    /\ rgb_tile' \in Tiles([k \in DOMAIN tile_data |-> NanAsUint8])
    /\ pc' = "normalized"
    /\ UNCHANGED <<runVars, builderVars, configVars, preflightVars, collectVars, error, dtype, tile_data>>

InitPixels ==
    /\ width = 2 /\ height = 2 /\ bands = 3 /\ invalid = {}
    /\ tile_size = 2 /\ overlap = 0
    /\ InitRun
    /\ NoBuilder
    /\ NoPreflight
    /\ NoCollect
    /\ NoConfig
    /\ dtype \in DTypes
    /\ \E n \in 1..MaxPix : tile_data \in [1..n -> RawValues(dtype)]
    /\ rgb_tile = <<>>
    /\ pc = "read"

NextPixels ==
    \/ KeepUint8
    \/ ScaleUnitRange
    \/ StretchMinMax
    \/ StretchFlatTile

SpecPixels == InitPixels /\ [][NextPixels]_vars

(* C26: the pixel values of a normalised tile lie in 0..255 and keep the   *)
(* order of the raw values; raw data that is not bytes is multiplied by    *)
(* 255 when its maximum is at most 1, and otherwise stretched so that the  *)
(* minimum maps to 0 and the maximum to 255, whatever the tile holds.      *)
C26_NormalizedOrderPreserving ==
    pc = "normalized" =>
        /\ \A k \in DOMAIN rgb_tile : rgb_tile[k] \in 0..255
        /\ \A a, b \in DOMAIN rgb_tile :
              tile_data[a] <= tile_data[b] => rgb_tile[a] <= rgb_tile[b]
        /\ (dtype # "uint8" /\ TileMax(tile_data) <= 2) =>
              \A k \in DOMAIN rgb_tile :
                  /\ rgb_tile[k] * 2 <= tile_data[k] * 255
                  /\ tile_data[k] * 255 < (rgb_tile[k] + 1) * 2
        /\ (dtype # "uint8" /\ TileMax(tile_data) > 2) =>
              \A k \in DOMAIN rgb_tile :
                  /\ tile_data[k] = TileMin(tile_data) => rgb_tile[k] = 0
                  /\ tile_data[k] = TileMax(tile_data) => rgb_tile[k] = 255

(* -------------------------------- Config ------------------------------ *)
(* One Config on a new directory, at most MaxCalls calls of set and        *)
(* delete, then a second Config on the same directory. A python value is   *)
(* a tuple of its type and its text, a dict is a set of <<key, value>>,    *)
(* and config.json holds the JSON tokens json.dump writes for each key.    *)
Keys == {"model", "device"}

PyNone == <<"NoneType">>

PyValues ==
    {<<"str", "cpu">>, <<"int", "32">>, PyNone,
     <<"list", "3", "4">>, <<"tuple", "3", "4">>}

RECURSIVE JoinItems(_)
JoinItems(items) ==
    IF Len(items) = 0 THEN <<>>
    ELSE IF Len(items) = 1 THEN items
    ELSE <<items[1], ",">> \o JoinItems(Tail(items))

(* json.dump of one value: lists and tuples are both written as arrays     *)
JsonDump(value) ==
    IF value[1] = "NoneType" THEN <<"null">>
    ELSE IF value[1] = "str" THEN <<"\"", value[2], "\"">>
    ELSE IF value[1] = "int" THEN <<value[2]>>
    ELSE <<"[">> \o JoinItems(Tail(value)) \o <<"]">>

(* json.load of one value: an array is read as a list                      *)
JsonLoad(doc) ==
    IF doc = <<"null">> THEN PyNone
    ELSE IF doc[1] = "\"" THEN <<"str", doc[2]>>
    ELSE IF doc[1] = "[" THEN
        <<"list">> \o SelectSeq(doc, LAMBDA t : t \notin {"[", ",", "]"})
    ELSE <<"int", doc[1]>>

Has(dict, key) == \E p \in dict : p[1] = key

Get(dict, key, default) ==
    IF Has(dict, key) THEN (CHOOSE p \in dict : p[1] = key)[2] ELSE default

SetItem(dict, key, value) == {p \in dict : p[1] # key} \cup {<<key, value>>}

DelItem(dict, key) == {p \in dict : p[1] # key}

SaveConfig(dict) ==
    [exists |-> TRUE, entries |-> {<<p[1], JsonDump(p[2])>> : p \in dict}]

LoadConfig(file) ==
    IF file.exists THEN {<<p[1], JsonLoad(p[2])>> : p \in file.entries} ELSE {}

Calling == pc = "config" /\ Len(calls) < MaxCalls

ConfigSet ==
    /\ Calling
    /\ \E key \in Keys, value \in PyValues :
          /\ _config' = SetItem(_config, key, value)
          /\ config_file' = SaveConfig(_config')
          /\ calls' = Append(calls, <<"set", key>> \o value)
    /\ UNCHANGED <<runVars, builderVars, preflightVars, collectVars, pixelVars, error, pc,
                   writes_ok, config2>>

(* save when open() raises IOError: the file stays as it was               *)
ConfigSetUnsaved ==
    /\ Calling
    /\ \E key \in Keys, value \in PyValues :
          /\ _config' = SetItem(_config, key, value)
          /\ calls' = Append(calls, <<"set", key>> \o value)
    /\ writes_ok' = FALSE
    /\ UNCHANGED <<runVars, builderVars, preflightVars, collectVars, pixelVars, error, pc,
                   config_file, config2>>

ConfigDeleteUnsaved ==
    /\ Calling
    /\ \E key \in Keys :
          /\ Has(_config, key)
          /\ _config' = DelItem(_config, key)
          /\ calls' = Append(calls, <<"delete", key>>)
    /\ UNCHANGED <<runVars, builderVars, preflightVars, collectVars, pixelVars, error, pc,
                   config_file, writes_ok, config2>>

ConfigDelete ==
    /\ Calling
    /\ \E key \in Keys :
          /\ Has(_config, key)
          /\ _config' = DelItem(_config, key)
          /\ config_file' = SaveConfig(_config')
          /\ calls' = Append(calls, <<"delete", key>>)
    /\ UNCHANGED <<runVars, builderVars, preflightVars, collectVars, pixelVars, error, pc,
                   writes_ok, config2>>

ConfigDeleteMissing ==
    /\ Calling
    /\ \E key \in Keys :
          /\ ~Has(_config, key)
          /\ calls' = Append(calls, <<"delete", key>>)
    /\ UNCHANGED <<runVars, builderVars, preflightVars, collectVars, pixelVars, error, pc,
                   _config, config_file, writes_ok, config2>>

(* Config(config_dir) once more: mkdir and load                            *)
NewConfig ==
    /\ pc = "config"
    /\ config2' = LoadConfig(config_file)
    /\ pc' = "reloaded"
    /\ UNCHANGED <<runVars, builderVars, preflightVars, collectVars, pixelVars, error,
                   _config, config_file, calls, writes_ok>>

InitConfig ==
    /\ width = 2 /\ height = 2 /\ bands = 3 /\ invalid = {}
    /\ tile_size = 2 /\ overlap = 0
    /\ InitRun
    /\ NoBuilder
    /\ NoPreflight
    /\ NoCollect
    /\ NoPixels
    /\ _config = {} /\ config_file = [exists |-> FALSE, entries |-> {}]
    /\ calls = <<>> /\ writes_ok = TRUE /\ config2 = {}
    /\ pc = "config"

NextConfig ==
    \/ ConfigSet
    \/ ConfigSetUnsaved
    \/ ConfigDelete
    \/ ConfigDeleteMissing
    \/ NewConfig

SpecConfig == InitConfig /\ [][NextConfig]_vars

CallsOn(key) == {j \in 1..Len(calls) : calls[j][2] = key}

(* the value of the latest set(key) not followed by delete(key), else None *)
LatestSet(key) ==
    IF CallsOn(key) = {} THEN PyNone
    ELSE LET call == calls[SetMax(CallsOn(key))]
         IN  IF call[1] = "set" THEN SubSeq(call, 3, Len(call)) ELSE PyNone

(* what python reads back from JSON: a tuple comes back as a list          *)
AsJsonValue(value) ==
    IF value[1] = "tuple" THEN <<"list">> \o Tail(value) ELSE value

====
